---- MODULE Spec2Model ----
(***************************************************************************)
(* psimpl: simplification of n-dimensional polylines (src/psimpl.h).       *)
(*                                                                         *)
(* A polyline is a flat sequence of coordinates, DIM per point.  A point   *)
(* is addressed, as in the code, by the 0-based offset of its first        *)
(* coordinate.  The instantiation modelled is value_type = int (a signed   *)
(* integer type) with a random-access output iterator: the output is the   *)
(* sequence of coordinates written through `result`, and the returned      *)
(* position is the number of positions the returned iterator lies beyond   *)
(* the one that was passed in.                                             *)
(***************************************************************************)
EXTENDS Integers, Sequences, FiniteSets, TLC

\* template <unsigned DIM, ...>
DIM == 2

\* bounds of the inputs explored
MaxPoints == 4
MaxX == 2
MaxY == 1
MaxTol == 2
MaxN == 3
MaxRepeat == 4
MaxAxisPoints == 5
MaxAxisX == 5
MaxAxisTol == 4
MaxSimplified == 3
MaxErrorPoints == 3
MaxErrorY == 2
MaxLiveX == 2
MaxScanPoints == 5
MaxScanTol == 3

VARIABLES pc, alg, coords, args, out, ret, reduced, keys, stack, queue, keyCount,
          simplified, errors, errorsEnd, valid, scan, division

\* the arguments and results of ComputePositionalErrors2
positionalErrors == <<simplified, errors, errorsEnd, valid>>

vars == <<pc, alg, coords, args, out, ret, reduced, keys, stack, queue, keyCount,
         simplified, errors, errorsEnd, valid, scan, division>>

-----------------------------------------------------------------------------
(* Sequences of coordinates                                                *)

\* the point (DIM coordinates) at coordinate offset p of c
Pt(c, p) == [d \in 1..DIM |-> c[p + d]]

RECURSIVE Sum(_, _)
Sum(f, n) == IF n = 0 THEN 0 ELSE f[n] + Sum(f, n - 1)

\* conversion of a float to value_type: truncation towards zero of a / b, b > 0
Trunc(a, b) == IF a >= 0 THEN a \div b ELSE -((-a) \div b)

-----------------------------------------------------------------------------
(* namespace math                                                          *)

equal(p1, p2) == \A d \in 1..DIM : p1[d] = p2[d]

make_vector(p1, p2) == [d \in 1..DIM |-> p2[d] - p1[d]]

dot(v1, v2) == Sum([d \in 1..DIM |-> v1[d] * v2[d]], DIM)

\* fraction is the float cw / cv; the result is stored in value_type proj[DIM].
\* For the coordinate ranges explored here the float roundings of cw / cv, of
\* the product and of the sum never cross an integer, so each stored
\* coordinate is the truncation of the exact value p1 + (cw / cv) * (p2 - p1).
interpolate(p1, p2, cw, cv) ==
    [d \in 1..DIM |-> Trunc(p1[d] * cv + cw * (p2[d] - p1[d]), cv)]

point_distance2(p1, p2) ==
    Sum([d \in 1..DIM |-> (p1[d] - p2[d]) * (p1[d] - p2[d])], DIM)

\* defined for l1 # l2 only: with l1 = l2 the fraction is 0 / 0 (see LineLess)
line_distance2(l1, l2, p) ==
    LET v == make_vector(l1, l2)
        w == make_vector(l1, p)
        cv == dot(v, v)
        cw == dot(w, v)
    IN  point_distance2(p, interpolate(l1, l2, cw, cv))

segment_distance2(s1, s2, p) ==
    LET v == make_vector(s1, s2)
        w == make_vector(s1, p)
        cw == dot(w, v)
        cv == dot(v, v)
    IN  IF cw <= 0 THEN point_distance2(p, s1)
        ELSE IF cv <= cw THEN point_distance2(p, s2)
        ELSE point_distance2(p, interpolate(s1, s2, cw, cv))

ray_distance2(r1, r2, p) ==
    LET v == make_vector(r1, r2)
        w == make_vector(r1, p)
        cv == dot(v, v)
        cw == dot(w, v)
    IN  IF cw <= 0 THEN point_distance2(p, r1)
        ELSE point_distance2(p, interpolate(r1, r2, cw, cv))

-----------------------------------------------------------------------------
(* namespace math with value_type double: the float division                *)

\* The coordinates of a call are m * 2^e for small integers m and one exponent
\* e; the dot products cw and cv are then multiples of 2^(2e), exact in double.
MathExponents == {0, -100}

\* static_cast <float> (x) for the double x = m * 2^(2e), m a small integer:
\* the least positive float is 2^-149, so for the exponent -100 every such x
\* rounds to 0.0f, and for the exponent 0 the float is m
ToFloat(m, e) == IF 2 * e <= -170 THEN 0 ELSE m

\* no division is reached; the distance returned is that from p to the
\* defining point `from` (1 or 2)
NoDivision == [reached |-> FALSE, dividend |-> 0, divisor |-> 0, from |-> 0, exponent |-> 0]

Undivided(from, e) == [NoDivision EXCEPT !.from = from, !.exponent = e]

\* float fraction = static_cast <float> (cw) / static_cast <float> (cv)
Divided(cw, cv, e) ==
    [reached |-> TRUE, dividend |-> ToFloat(cw, e), divisor |-> ToFloat(cv, e),
     from |-> 0, exponent |-> e]

line_distance2_fraction(l1, l2, p, e) ==
    LET v == make_vector(l1, l2)
        w == make_vector(l1, p)
        cv == dot(v, v)
        cw == dot(w, v)
    IN  Divided(cw, cv, e)

segment_distance2_fraction(s1, s2, p, e) ==
    LET v == make_vector(s1, s2)
        w == make_vector(s1, p)
        cw == dot(w, v)
        cv == dot(v, v)
    IN  IF cw <= 0 THEN Undivided(1, e)
        ELSE IF cv <= cw THEN Undivided(2, e)
        ELSE Divided(cw, cv, e)

ray_distance2_fraction(r1, r2, p, e) ==
    LET v == make_vector(r1, r2)
        w == make_vector(r1, p)
        cv == dot(v, v)
        cw == dot(w, v)
    IN  IF cw <= 0 THEN Undivided(1, e)
        ELSE Divided(cw, cv, e)

-----------------------------------------------------------------------------
(* class PolylineSimplification                                            *)

\* CopyKey without key++: the first coordinate of the key, DIM times
CopyKey_FirstCoordinate(c, key, written) == written \o [d \in 1..DIM |-> c[key + 1]]

\* CopyKey: the DIM coordinates of the key, appended to what was written
CopyKey(c, key, written) == written \o [d \in 1..DIM |-> c[key + d]]

\* std::copy (first, last, result); return result;
\* the whole input is written, and the iterator returned is the one passed in
CopyInput(c) == [out |-> c, ret |-> 0]

\* a simplification that wrote `written` through *result++ and returns result
Written(written) == [out |-> written, ret |-> Len(written)]

PointCount(c) == Len(c) \div DIM

RECURSIVE NthPointLoop(_, _, _, _, _, _)
NthPointLoop(c, n, k, i, key, written) ==
    IF i < k
    THEN NthPointLoop(c, n, k, i + 1, key + n * DIM, CopyKey(c, key + n * DIM, written))
    ELSE [key |-> key, written |-> written]

\* NthPoint without the test of r: the last point is copied in any case
NthPoint_LastAlways(c, n) ==
    LET coordCount == Len(c)
        pointCount == PointCount(c)
    IN  IF coordCount % DIM # 0 \/ pointCount < 2 \/ n < 2
        THEN CopyInput(c)
        ELSE LET k == (pointCount - 1) \div n
                 r == pointCount - k * n - 1
                 l == NthPointLoop(c, n, k, 0, 0, CopyKey(c, 0, <<>>))
             IN  Written(CopyKey(c, l.key + DIM * r, l.written))

NthPoint(c, n) ==
    LET coordCount == Len(c)
        pointCount == PointCount(c)
    IN  IF coordCount % DIM # 0 \/ pointCount < 2 \/ n < 2
        THEN CopyInput(c)
        ELSE LET k == (pointCount - 1) \div n
                 r == pointCount - k * n - 1
                 l == NthPointLoop(c, n, k, 0, 0, CopyKey(c, 0, <<>>))
             IN  IF r # 0
                 THEN Written(CopyKey(c, l.key + DIM * r, l.written))
                 ELSE Written(l.written)

\* the loop of RadialDistance with the comparison inverted: a point becomes
\* a key when it is within the tolerance of the current key
RECURSIVE RadialDistanceLoop_Inverted(_, _, _, _, _, _, _)
RadialDistanceLoop_Inverted(c, tol2, pointCount, index, current, next, written) ==
    IF index < pointCount - 1
    THEN LET nxt == next + DIM
         IN  IF point_distance2(Pt(c, current), Pt(c, nxt)) >= tol2
             THEN RadialDistanceLoop_Inverted(c, tol2, pointCount, index + 1, current, nxt,
                                              written)
             ELSE RadialDistanceLoop_Inverted(c, tol2, pointCount, index + 1, nxt, nxt,
                                              CopyKey(c, nxt, written))
    ELSE [next |-> next, written |-> written]

\* the loop of RadialDistance measuring from the point scanned last instead
\* of from the current key
RECURSIVE RadialDistanceLoop_FromPrevious(_, _, _, _, _, _, _)
RadialDistanceLoop_FromPrevious(c, tol2, pointCount, index, current, next, written) ==
    IF index < pointCount - 1
    THEN LET nxt == next + DIM
         IN  IF point_distance2(Pt(c, next), Pt(c, nxt)) < tol2
             THEN RadialDistanceLoop_FromPrevious(c, tol2, pointCount, index + 1, current, nxt,
                                                  written)
             ELSE RadialDistanceLoop_FromPrevious(c, tol2, pointCount, index + 1, nxt, nxt,
                                                  CopyKey(c, nxt, written))
    ELSE [next |-> next, written |-> written]

RECURSIVE RadialDistanceLoop(_, _, _, _, _, _, _)
RadialDistanceLoop(c, tol2, pointCount, index, current, next, written) ==
    IF index < pointCount - 1
    THEN LET nxt == next + DIM
         IN  IF point_distance2(Pt(c, current), Pt(c, nxt)) < tol2
             THEN RadialDistanceLoop(c, tol2, pointCount, index + 1, current, nxt, written)
             ELSE RadialDistanceLoop(c, tol2, pointCount, index + 1, nxt, nxt,
                                     CopyKey(c, nxt, written))
    ELSE [next |-> next, written |-> written]

RadialDistance(c, tol) ==
    LET coordCount == Len(c)
        pointCount == PointCount(c)
        tol2 == tol * tol
    IN  IF coordCount % DIM # 0 \/ pointCount < 2 \/ tol2 = 0
        THEN CopyInput(c)
        ELSE LET l == RadialDistanceLoop(c, tol2, pointCount, 1, 0, 0, CopyKey(c, 0, <<>>))
             IN  Written(CopyKey(c, l.next + DIM, l.written))

\* the loop of PerpendicularDistance that, having dropped p1, goes on from the
\* same key with p2 as the next point to test, without copying p2
RECURSIVE PerpendicularDistanceLoop_DropRuns(_, _, _, _, _, _)
PerpendicularDistanceLoop_DropRuns(c, tol2, p0, p1, p2, written) ==
    IF p2 # Len(c)
    THEN IF segment_distance2(Pt(c, p0), Pt(c, p2), Pt(c, p1)) < tol2
         THEN PerpendicularDistanceLoop_DropRuns(c, tol2, p0, p2, p2 + DIM, written)
         ELSE PerpendicularDistanceLoop_DropRuns(c, tol2, p1, p2, p2 + DIM,
                                                 CopyKey(c, p1, written))
    ELSE [p1 |-> p1, written |-> written]

RECURSIVE PerpendicularDistanceLoop(_, _, _, _, _, _)
PerpendicularDistanceLoop(c, tol2, p0, p1, p2, written) ==
    IF p2 # Len(c)
    THEN IF segment_distance2(Pt(c, p0), Pt(c, p2), Pt(c, p1)) < tol2
         THEN IF p1 + 2 * DIM = Len(c)
              THEN [p1 |-> p1 + 2 * DIM, written |-> CopyKey(c, p2, written)]
              ELSE PerpendicularDistanceLoop(c, tol2, p2, p1 + 2 * DIM, p2 + 2 * DIM,
                                             CopyKey(c, p2, written))
         ELSE PerpendicularDistanceLoop(c, tol2, p1, p2, p2 + DIM, CopyKey(c, p1, written))
    ELSE [p1 |-> p1, written |-> written]

\* the single pass
PerpendicularDistance(c, tol) ==
    LET coordCount == Len(c)
        pointCount == PointCount(c)
        tol2 == tol * tol
    IN  IF coordCount % DIM # 0 \/ pointCount < 3 \/ tol2 = 0
        THEN CopyInput(c)
        ELSE LET l == PerpendicularDistanceLoop(c, tol2, 0, DIM, 2 * DIM, CopyKey(c, 0, <<>>))
             IN  IF l.p1 # Len(c)
                 THEN Written(CopyKey(c, l.p1, l.written))
                 ELSE Written(l.written)

\* the first coordCount coordinates of a temporary array
Range(buffer, coordCount) == SubSeq(buffer, 1, coordCount)

\* while (--repeat): tempPoly --> tempResult; a pass writes its output to the
\* start of the other array and the distance to the returned pointer is taken
\* as the new coordinate count
RECURSIVE IntermediatePasses(_, _, _, _)
IntermediatePasses(tempPoly, coordCount, tol, repeat) ==
    IF repeat - 1 = 0
    THEN [returned |-> FALSE, tempPoly |-> tempPoly, coordCount |-> coordCount]
    ELSE LET pass == PerpendicularDistance(Range(tempPoly, coordCount), tol)
             tempCoordCount == pass.ret
         IN  IF coordCount = tempCoordCount
             THEN [returned |-> TRUE, tempPoly |-> tempPoly, coordCount |-> coordCount]
             ELSE IntermediatePasses(pass.out, tempCoordCount, tol, repeat - 1)

\* the repeat variant without its loop: one pass, whatever repeat is
PerpendicularDistanceRepeat_OnePass(c, tol, repeat) == PerpendicularDistance(c, tol)

\* the repeat variant without the case repeat == 1: a first pass into the
\* temporary array and a final pass from it
PerpendicularDistanceRepeat_NoSinglePass(c, tol, repeat) ==
    IF repeat < 1 THEN CopyInput(c)
    ELSE LET coordCount == Len(c)
             pass == PerpendicularDistance(c, tol)
             tempCoordCount == pass.ret
         IN  IF coordCount = tempCoordCount
             THEN CopyInput(Range(pass.out, coordCount))
             ELSE LET l == IF 1 < repeat - 1
                           THEN IntermediatePasses(pass.out, tempCoordCount, tol, repeat - 1)
                           ELSE [returned |-> FALSE, tempPoly |-> pass.out,
                                 coordCount |-> tempCoordCount]
                  IN  IF l.returned
                      THEN CopyInput(Range(l.tempPoly, l.coordCount))
                      ELSE PerpendicularDistance(Range(l.tempPoly, l.coordCount), tol)

\* PerpendicularDistance (first, last, tol, repeat, result)
PerpendicularDistanceRepeat(c, tol, repeat) ==
    IF repeat = 1 THEN PerpendicularDistance(c, tol)
    ELSE IF repeat < 1 THEN CopyInput(c)
    ELSE LET coordCount == Len(c)
             pass == PerpendicularDistance(c, tol)
             tempCoordCount == pass.ret
         IN  IF coordCount = tempCoordCount
             THEN CopyInput(Range(pass.out, coordCount))
             ELSE LET l == IF 1 < repeat - 1
                           THEN IntermediatePasses(pass.out, tempCoordCount, tol, repeat - 1)
                           ELSE [returned |-> FALSE, tempPoly |-> pass.out,
                                 coordCount |-> tempCoordCount]
                  IN  IF l.returned
                      THEN CopyInput(Range(l.tempPoly, l.coordCount))
                      ELSE PerpendicularDistance(Range(l.tempPoly, l.coordCount), tol)

\* math::line_distance2 (p0, p1, pj) < tol2.  When p0 and p1 have the same
\* coordinates the fraction is 0.0f / 0.0f, a NaN, and the projection converts
\* a NaN to value_type: undefined behaviour, so the outcome of the comparison
\* is whatever the build produces; `undefined` is that outcome.
LineLess(l1, l2, p, tol2, undefined) ==
    IF equal(l1, l2) THEN undefined ELSE line_distance2(l1, l2, p) < tol2

RECURSIVE ReumannWitkamLoop(_, _, _, _, _, _, _, _)
ReumannWitkamLoop(c, tol2, ub, j, p0, p1, pj, written) ==
    IF j < PointCount(c)
    THEN LET pi == pj
             pn == pj + DIM
         IN  IF LineLess(Pt(c, p0), Pt(c, p1), Pt(c, pn), tol2, j \in ub)
             THEN ReumannWitkamLoop(c, tol2, ub, j + 1, p0, p1, pn, written)
             ELSE ReumannWitkamLoop(c, tol2, ub, j + 1, pi, pn, pn, CopyKey(c, pi, written))
    ELSE [pj |-> pj, written |-> written]

\* ub: the iterations j at which an undefined comparison comes out as `less`
ReumannWitkam(c, tol, ub) ==
    LET coordCount == Len(c)
        pointCount == PointCount(c)
        tol2 == tol * tol
    IN  IF coordCount % DIM # 0 \/ pointCount < 3 \/ tol2 = 0
        THEN CopyInput(c)
        ELSE LET l == ReumannWitkamLoop(c, tol2, ub, 2, 0, DIM, DIM, CopyKey(c, 0, <<>>))
             IN  Written(CopyKey(c, l.pj, l.written))

\* a turn of the loop of ReumannWitkam that takes the point that failed for
\* the key, not the point before it
ReumannWitkamStep_KeyAtCurrent(c, tol2, l, written, undefined) ==
    LET pi == l.pj
        pj == l.pj + DIM
    IN  IF LineLess(Pt(c, l.p0), Pt(c, l.p1), Pt(c, pj), tol2, undefined)
        THEN [scan |-> [l EXCEPT !.j = l.j + 1, !.pi = pi, !.pj = pj], written |-> written]
        ELSE [scan |-> [l EXCEPT !.j = l.j + 1, !.pi = pi, !.pj = pj, !.p0 = pi, !.p1 = pj],
              written |-> CopyKey(c, pj, written)]

\* one turn of the loop of ReumannWitkam on the locals l
ReumannWitkamStep(c, tol2, l, written, undefined) ==
    LET pi == l.pj
        pj == l.pj + DIM
    IN  IF LineLess(Pt(c, l.p0), Pt(c, l.p1), Pt(c, pj), tol2, undefined)
        THEN [scan |-> [l EXCEPT !.j = l.j + 1, !.pi = pi, !.pj = pj], written |-> written]
        ELSE [scan |-> [l EXCEPT !.j = l.j + 1, !.pi = pi, !.pj = pj, !.p0 = pi, !.p1 = pj],
              written |-> CopyKey(c, pi, written)]

\* a turn of the loop of Opheim that defines the ray through the point that
\* left the minimum tolerance: r1 = pj
OpheimStep_RayThroughCurrent(c, minTol2, maxTol2, l, written) ==
    LET pi == l.pj
        pj == l.pj + DIM
        r1 == IF l.rayDefined THEN l.r1 ELSE pj
    IN  IF ~l.rayDefined /\ point_distance2(Pt(c, l.r0), Pt(c, pj)) < minTol2
        THEN [scan |-> [l EXCEPT !.j = l.j + 1, !.pi = pi, !.pj = pj], written |-> written]
        ELSE IF /\ point_distance2(Pt(c, l.r0), Pt(c, pj)) < maxTol2
                /\ ray_distance2(Pt(c, l.r0), Pt(c, r1), Pt(c, pj)) < minTol2
             THEN [scan |-> [l EXCEPT !.j = l.j + 1, !.pi = pi, !.pj = pj, !.r1 = r1,
                                      !.rayDefined = TRUE],
                   written |-> written]
             ELSE [scan |-> [l EXCEPT !.j = l.j + 1, !.pi = pi, !.pj = pj, !.r1 = r1,
                                      !.r0 = pi, !.rayDefined = FALSE],
                   written |-> CopyKey(c, pi, written)]

\* one turn of the loop of Opheim on the locals l
OpheimStep(c, minTol2, maxTol2, l, written) ==
    LET pi == l.pj
        pj == l.pj + DIM
        r1 == IF l.rayDefined THEN l.r1 ELSE pi
    IN  IF ~l.rayDefined /\ point_distance2(Pt(c, l.r0), Pt(c, pj)) < minTol2
        THEN [scan |-> [l EXCEPT !.j = l.j + 1, !.pi = pi, !.pj = pj], written |-> written]
        ELSE IF /\ point_distance2(Pt(c, l.r0), Pt(c, pj)) < maxTol2
                /\ ray_distance2(Pt(c, l.r0), Pt(c, r1), Pt(c, pj)) < minTol2
             THEN [scan |-> [l EXCEPT !.j = l.j + 1, !.pi = pi, !.pj = pj, !.r1 = r1,
                                      !.rayDefined = TRUE],
                   written |-> written]
             ELSE [scan |-> [l EXCEPT !.j = l.j + 1, !.pi = pi, !.pj = pj, !.r1 = r1,
                                      !.r0 = pi, !.rayDefined = FALSE],
                   written |-> CopyKey(c, pi, written)]

RECURSIVE OpheimLoop(_, _, _, _, _, _, _, _, _)
OpheimLoop(c, minTol2, maxTol2, j, r0, r1, rayDefined, pj, written) ==
    IF j < PointCount(c)
    THEN LET pi == pj
             pn == pj + DIM
             skip == ~rayDefined /\ point_distance2(Pt(c, r0), Pt(c, pn)) < minTol2
             ray == IF rayDefined THEN r1 ELSE pi
         IN  IF skip
             THEN OpheimLoop(c, minTol2, maxTol2, j + 1, r0, r1, rayDefined, pn, written)
             ELSE IF /\ point_distance2(Pt(c, r0), Pt(c, pn)) < maxTol2
                     /\ ray_distance2(Pt(c, r0), Pt(c, ray), Pt(c, pn)) < minTol2
                  THEN OpheimLoop(c, minTol2, maxTol2, j + 1, r0, ray, TRUE, pn, written)
                  ELSE OpheimLoop(c, minTol2, maxTol2, j + 1, pi, ray, FALSE, pn,
                                  CopyKey(c, pi, written))
    ELSE [pj |-> pj, written |-> written]

Opheim(c, minTol, maxTol) ==
    LET coordCount == Len(c)
        pointCount == PointCount(c)
        minTol2 == minTol * minTol
        maxTol2 == maxTol * maxTol
    IN  IF coordCount % DIM # 0 \/ pointCount < 2 \/ minTol2 = 0 \/ maxTol2 = 0
        THEN CopyInput(c)
        ELSE LET l == OpheimLoop(c, minTol2, maxTol2, 2, 0, 0, FALSE, DIM, CopyKey(c, 0, <<>>))
             IN  Written(CopyKey(c, l.pj, l.written))

\* while (original_first != original_last && !math::equal (...))
RECURSIVE PositionalErrorsOfSegment(_, _, _, _, _, _)
PositionalErrorsOfSegment(original, simpl, original_first, simplified_prev, simplified_first, written) ==
    IF /\ original_first # Len(original)
       /\ ~equal(Pt(original, original_first), Pt(simpl, simplified_first))
    THEN PositionalErrorsOfSegment(original, simpl, original_first + DIM, simplified_prev,
             simplified_first,
             Append(written, segment_distance2(Pt(simpl, simplified_prev),
                                               Pt(simpl, simplified_first),
                                               Pt(original, original_first))))
    ELSE [original_first |-> original_first, written |-> written]

\* while (simplified_first != simplified_last)
RECURSIVE PositionalErrorsLoop(_, _, _, _, _, _)
PositionalErrorsLoop(original, simpl, original_first, simplified_prev, simplified_first, written) ==
    IF simplified_first # Len(simpl)
    THEN LET l == PositionalErrorsOfSegment(original, simpl, original_first, simplified_prev,
                                            simplified_first, written)
         IN  PositionalErrorsLoop(original, simpl, l.original_first, simplified_first,
                                  simplified_first + DIM, l.written)
    ELSE [original_first |-> original_first, written |-> written]

\* the validation without the comparison of the first points
InvalidErrorInput_FirstPointsUnchecked(original, simpl) ==
    \/ Len(original) % DIM # 0
    \/ PointCount(original) < 2
    \/ Len(simpl) % DIM # 0
    \/ PointCount(simpl) < 2
    \/ PointCount(original) < PointCount(simpl)

\* the test of the validation: the input is rejected
InvalidErrorInput(original, simpl) ==
    \/ Len(original) % DIM # 0
    \/ PointCount(original) < 2
    \/ Len(simpl) % DIM # 0
    \/ PointCount(simpl) < 2
    \/ PointCount(original) < PointCount(simpl)
    \/ ~equal(Pt(original, 0), Pt(simpl, 0))

\* ComputePositionalErrors2 writing the final 0 whether or not the last
\* original point was reached
ComputePositionalErrors2_FinalAlways(original, simpl) ==
    IF InvalidErrorInput(original, simpl)
    THEN [out |-> <<>>, ret |-> 0, valid |-> FALSE]
    ELSE LET l == PositionalErrorsLoop(original, simpl, 0, 0, DIM, <<>>)
             matched == l.original_first # Len(original)
             written == Append(l.written, 0)
         IN  [out |-> written, ret |-> Len(written), valid |-> matched]

\* out: the squared errors written through result; ret: the position returned;
\* valid: the value stored in *valid
ComputePositionalErrors2(original, simpl) ==
    IF InvalidErrorInput(original, simpl)
    THEN [out |-> <<>>, ret |-> 0, valid |-> FALSE]
    ELSE LET l == PositionalErrorsLoop(original, simpl, 0, 0, DIM, <<>>)
             matched == l.original_first # Len(original)
             written == IF matched THEN Append(l.written, 0) ELSE l.written
         IN  [out |-> written, ret |-> Len(written), valid |-> matched]

-----------------------------------------------------------------------------
(* class DPHelper                                                          *)

SubPoly(first, last) == [first |-> first, last |-> last]

KeyInfo(index, dist2) == [index |-> index, dist2 |-> dist2]

SubPolyAlt(first, last, keyInfo) == [first |-> first, last |-> last, keyInfo |-> keyInfo]

\* the loop of FindKey going on at d2 <= keyInfo.dist2: a point replaces the
\* key only when it is farther away
RECURSIVE FindKeyLoop_FartherOnly(_, _, _, _, _)
FindKeyLoop_FartherOnly(c, first, last, current, keyInfo) ==
    IF current < last
    THEN LET d2 == segment_distance2(Pt(c, first), Pt(c, last), Pt(c, current))
         IN  IF d2 <= keyInfo.dist2
             THEN FindKeyLoop_FartherOnly(c, first, last, current + DIM, keyInfo)
             ELSE FindKeyLoop_FartherOnly(c, first, last, current + DIM, KeyInfo(current, d2))
    ELSE keyInfo

RECURSIVE FindKeyLoop(_, _, _, _, _)
FindKeyLoop(c, first, last, current, keyInfo) ==
    IF current < last
    THEN LET d2 == segment_distance2(Pt(c, first), Pt(c, last), Pt(c, current))
         IN  IF d2 < keyInfo.dist2
             THEN FindKeyLoop(c, first, last, current + DIM, keyInfo)
             ELSE FindKeyLoop(c, first, last, current + DIM, KeyInfo(current, d2))
    ELSE keyInfo

FindKey(c, first, last) == FindKeyLoop(c, first, last, first + DIM, KeyInfo(0, 0))

\* memset (keys, 0, pointCount); keys [0] = 1; keys [pointCount - 1] = 1;
InitialKeys(pointCount) ==
    [p \in 0..(pointCount - 1) |-> IF p = 0 \/ p = pointCount - 1 THEN 1 ELSE 0]

\* a turn of the loop of Approximate that takes a key at the tolerance for
\* valid: tol2 <= keyInfo.dist2
ApproximateStep_AtTolerance(c, tol2, ks, stk) ==
    LET subPoly == stk[Len(stk)]
        rest == SubSeq(stk, 1, Len(stk) - 1)
        keyInfo == FindKey(c, subPoly.first, subPoly.last)
    IN  IF keyInfo.index # subPoly.last /\ tol2 <= keyInfo.dist2
        THEN [keys |-> [ks EXCEPT ![keyInfo.index \div DIM] = 1],
              stack |-> rest \o <<SubPoly(keyInfo.index, subPoly.last),
                                  SubPoly(subPoly.first, keyInfo.index)>>]
        ELSE [keys |-> ks, stack |-> rest]

\* a turn of the loop of Approximate that pops the sub-polyline only when it
\* is split
ApproximateStep_NoPop(c, tol2, ks, stk) ==
    LET subPoly == stk[Len(stk)]
        rest == SubSeq(stk, 1, Len(stk) - 1)
        keyInfo == FindKey(c, subPoly.first, subPoly.last)
    IN  IF keyInfo.index # subPoly.last /\ tol2 < keyInfo.dist2
        THEN [keys |-> [ks EXCEPT ![keyInfo.index \div DIM] = 1],
              stack |-> rest \o <<SubPoly(keyInfo.index, subPoly.last),
                                  SubPoly(subPoly.first, keyInfo.index)>>]
        ELSE [keys |-> ks, stack |-> stk]

\* a turn of the loop of Approximate that pushes the whole sub-polyline for
\* its left part
ApproximateStep_LeftWhole(c, tol2, ks, stk) ==
    LET subPoly == stk[Len(stk)]
        rest == SubSeq(stk, 1, Len(stk) - 1)
        keyInfo == FindKey(c, subPoly.first, subPoly.last)
    IN  IF keyInfo.index # subPoly.last /\ tol2 < keyInfo.dist2
        THEN [keys |-> [ks EXCEPT ![keyInfo.index \div DIM] = 1],
              stack |-> rest \o <<SubPoly(keyInfo.index, subPoly.last),
                                  SubPoly(subPoly.first, subPoly.last)>>]
        ELSE [keys |-> ks, stack |-> rest]

\* one turn of the loop of Approximate; the top of the stack is its last element
ApproximateStep(c, tol2, ks, stk) ==
    LET subPoly == stk[Len(stk)]
        rest == SubSeq(stk, 1, Len(stk) - 1)
        keyInfo == FindKey(c, subPoly.first, subPoly.last)
    IN  IF keyInfo.index # subPoly.last /\ tol2 < keyInfo.dist2
        THEN [keys |-> [ks EXCEPT ![keyInfo.index \div DIM] = 1],
              stack |-> rest \o <<SubPoly(keyInfo.index, subPoly.last),
                                  SubPoly(subPoly.first, keyInfo.index)>>]
        ELSE [keys |-> ks, stack |-> rest]

RECURSIVE ApproximateLoop(_, _, _, _)
ApproximateLoop(c, tol2, ks, stk) ==
    IF stk # <<>>
    THEN LET s == ApproximateStep(c, tol2, ks, stk)
         IN  ApproximateLoop(c, tol2, s.keys, s.stack)
    ELSE ks

Approximate(c, coordCount, tol) ==
    ApproximateLoop(c, tol * tol, InitialKeys(coordCount \div DIM),
                    <<SubPoly(0, coordCount - DIM)>>)

\* the entries of the priority queue that top () may return: those no other
\* entry is greater than (operator< compares keyInfo.dist2 alone, and the
\* order among entries of equal dist2 is up to the heap)
Tops(q) == {i \in 1..Len(q) : \A j \in 1..Len(q) : ~(q[i].keyInfo.dist2 < q[j].keyInfo.dist2)}

Remove(q, i) == SubSeq(q, 1, i - 1) \o SubSeq(q, i + 1, Len(q))

\* a turn of the loop of ApproximateAlt that leaves the loop when the count of
\* keys has passed countTol
ApproximateAltStep_PastCount(c, countTol, ks, kc, q, i) ==
    LET subPoly == q[i]
        rest == Remove(q, i)
        index == subPoly.keyInfo.index
    IN  IF index # subPoly.last
        THEN IF kc + 1 > countTol
             THEN [keys |-> [ks EXCEPT ![index \div DIM] = 1], keyCount |-> kc + 1,
                   queue |-> rest, exit |-> TRUE]
             ELSE [keys |-> [ks EXCEPT ![index \div DIM] = 1], keyCount |-> kc + 1,
                   queue |-> rest \o
                       <<SubPolyAlt(subPoly.first, index, FindKey(c, subPoly.first, index)),
                         SubPolyAlt(index, subPoly.last, FindKey(c, index, subPoly.last))>>,
                   exit |-> FALSE]
        ELSE [keys |-> ks, keyCount |-> kc, queue |-> rest, exit |-> FALSE]

\* a turn of the loop of Approximate that takes entry i of the worklist and
\* loses the entries pushed after it
ApproximateTake_DropLater(c, tol2, ks, stk, i) ==
    LET subPoly == stk[i]
        rest == SubSeq(stk, 1, i - 1)
        keyInfo == FindKey(c, subPoly.first, subPoly.last)
    IN  IF keyInfo.index # subPoly.last /\ tol2 < keyInfo.dist2
        THEN [keys |-> [ks EXCEPT ![keyInfo.index \div DIM] = 1],
              stack |-> rest \o <<SubPoly(keyInfo.index, subPoly.last),
                                  SubPoly(subPoly.first, keyInfo.index)>>]
        ELSE [keys |-> ks, stack |-> rest]

\* one turn of the loop of Approximate with the sub-polyline taken from
\* position i of the worklist; std::stack takes i = Len(stk)
ApproximateTake(c, tol2, ks, stk, i) ==
    LET subPoly == stk[i]
        rest == Remove(stk, i)
        keyInfo == FindKey(c, subPoly.first, subPoly.last)
    IN  IF keyInfo.index # subPoly.last /\ tol2 < keyInfo.dist2
        THEN [keys |-> [ks EXCEPT ![keyInfo.index \div DIM] = 1],
              stack |-> rest \o <<SubPoly(keyInfo.index, subPoly.last),
                                  SubPoly(subPoly.first, keyInfo.index)>>]
        ELSE [keys |-> ks, stack |-> rest]

\* one turn of the loop of ApproximateAlt, taking entry i of the queue
ApproximateAltStep(c, countTol, ks, kc, q, i) ==
    LET subPoly == q[i]
        rest == Remove(q, i)
        index == subPoly.keyInfo.index
    IN  IF index # subPoly.last
        THEN IF kc + 1 = countTol
             THEN [keys |-> [ks EXCEPT ![index \div DIM] = 1], keyCount |-> kc + 1,
                   queue |-> rest, exit |-> TRUE]
             ELSE [keys |-> [ks EXCEPT ![index \div DIM] = 1], keyCount |-> kc + 1,
                   queue |-> rest \o
                       <<SubPolyAlt(subPoly.first, index, FindKey(c, subPoly.first, index)),
                         SubPolyAlt(index, subPoly.last, FindKey(c, index, subPoly.last))>>,
                   exit |-> FALSE]
        ELSE [keys |-> ks, keyCount |-> kc, queue |-> rest, exit |-> FALSE]

\* the copy loop with the test of keys [p] inverted
RECURSIVE CopyKeys_NonKeys(_, _, _, _, _)
CopyKeys_NonKeys(c, ks, pointCount, p, written) ==
    IF p < pointCount
    THEN CopyKeys_NonKeys(c, ks, pointCount, p + 1,
                          IF ks[p] = 0 THEN CopyKey(c, p * DIM, written) ELSE written)
    ELSE written

\* copy all keys
RECURSIVE CopyKeys(_, _, _, _, _)
CopyKeys(c, ks, pointCount, p, written) ==
    IF p < pointCount
    THEN CopyKeys(c, ks, pointCount, p + 1,
                  IF ks[p] # 0 THEN CopyKey(c, p * DIM, written) ELSE written)
    ELSE written

\* DouglasPeucker, from the call to the return
DouglasPeucker(c, tol) ==
    LET coordCount == Len(c)
        pointCount == PointCount(c)
    IN  IF coordCount % DIM # 0 \/ pointCount < 2 \/ tol = 0
        THEN CopyInput(c)
        ELSE LET rd == RadialDistance(c, tol)
                 reducedCoordCount == rd.ret
                 red == Range(rd.out, reducedCoordCount)
                 ks == Approximate(red, reducedCoordCount, tol)
             IN  Written(CopyKeys(red, ks, reducedCoordCount \div DIM, 0, <<>>))

-----------------------------------------------------------------------------
(* Calls of the simplifiers                                                *)

\* the largest value of the coordinate at (1-based) place i of an input
CoordMax(i) == IF (i - 1) % DIM = 0 THEN MaxX ELSE MaxY

\* polylines on a small grid, of 0..MaxPoints points, and the same with a
\* coordinate count that is no multiple of DIM
Inputs ==
    UNION {{s \in [1..L -> 0..(IF MaxX < MaxY THEN MaxY ELSE MaxX)] :
                \A i \in 1..L : s[i] <= CoordMax(i)} : L \in 0..(DIM * MaxPoints)}

\* the polyline whose points lie on the first axis at the places xs
OnAxis(xs) ==
    [i \in 1..(DIM * Len(xs)) |-> IF (i - 1) % DIM = 0 THEN xs[((i - 1) \div DIM) + 1] ELSE 0]

\* polylines of 2..MaxAxisPoints points that run back and forth on the first axis
AxisInputs == UNION {{OnAxis(xs) : xs \in [1..N -> 0..MaxAxisX]} : N \in 2..MaxAxisPoints}

\* the largest value of the coordinate at place i of an original polyline
ErrorCoordMax(i) == IF (i - 1) % DIM = 0 THEN MaxX ELSE MaxErrorY

\* the first range of ComputePositionalErrors2: 0..MaxErrorPoints points of a
\* grid on which a projection falls between the grid points, and the same with
\* a coordinate count that is no multiple of DIM
ErrorInputs ==
    UNION {{s \in [1..L -> 0..(IF MaxX < MaxErrorY THEN MaxErrorY ELSE MaxX)] :
                \A i \in 1..L : s[i] <= ErrorCoordMax(i)} : L \in 0..(DIM * MaxErrorPoints)}

\* the second range of ComputePositionalErrors2: 0..MaxSimplified points of the
\* grid, and the same with a coordinate count that is no multiple of DIM
SimplifiedInputs == {s \in Inputs : Len(s) <= DIM * MaxSimplified}

\* polylines of 2..MaxAxisPoints points on the first axis that lie close
\* together: on a line, and with points that occur more than once
LiveInputs == UNION {{OnAxis(xs) : xs \in [1..n -> 0..MaxLiveX]} : n \in 2..MaxAxisPoints}

\* polylines of 0..MaxScanPoints points of the grid
ScanInputs ==
    UNION {{s \in [1..(DIM * n) -> 0..(IF MaxX < MaxY THEN MaxY ELSE MaxX)] :
                \A i \in 1..(DIM * n) : s[i] <= CoordMax(i)} : n \in 0..MaxScanPoints}

ScanTols == 0..MaxScanTol

Tols == (-MaxTol)..MaxTol

AxisTols == (-MaxAxisTol)..MaxAxisTol

NoArgs == [tol |-> 0, maxTol |-> 0, n |-> 0, repeat |-> 0, count |-> 0]

\* the locals of the loops of Opheim (j, r0, r1, rayDefined, pi, pj) and of
\* ReumannWitkam (j, p0, p1, pi, pj), before a loop is entered
NoScan ==
    [j |-> 0, r0 |-> 0, r1 |-> 0, rayDefined |-> FALSE, p0 |-> 0, p1 |-> 0, pi |-> 0, pj |-> 0]

Idle ==
    /\ pc = "init"
    /\ alg = "none"
    /\ args = NoArgs
    /\ out = <<>>
    /\ ret = 0
    /\ reduced = <<>>
    /\ keys = <<>>
    /\ stack = <<>>
    /\ queue = <<>>
    /\ keyCount = 0
    /\ simplified = <<>>
    /\ errors = <<>>
    /\ errorsEnd = 0
    /\ scan = NoScan
    /\ division = NoDivision

Init == coords \in Inputs /\ Idle /\ valid = FALSE

InitAxis == coords \in AxisInputs /\ Idle /\ valid = FALSE

InitLive == coords \in LiveInputs /\ Idle /\ valid = FALSE

InitScan == coords \in ScanInputs /\ Idle /\ valid = FALSE

\* the two defining points and the test point of a distance
MathInputs == {c \in Inputs : Len(c) = 3 * DIM}

InitMath == coords \in MathInputs /\ Idle /\ valid = FALSE

\* the caller's flag holds either value before the call
InitErrors == coords \in ErrorInputs /\ Idle /\ valid \in BOOLEAN

\* a call that ran to its return statement: r.out was written, r.ret is returned
Return(a, ar, r) ==
    /\ pc' = "done"
    /\ alg' = a
    /\ args' = ar
    /\ out' = r.out
    /\ ret' = r.ret
    /\ UNCHANGED <<coords, reduced, keys, stack, queue, keyCount, positionalErrors, scan, division>>

CallNthPoint ==
    /\ pc = "init"
    /\ \E n \in 0..MaxN :
          Return("NthPoint", [NoArgs EXCEPT !.n = n], NthPoint(coords, n))

CallRadialDistance(T) ==
    /\ pc = "init"
    /\ \E tol \in T :
          Return("RadialDistance", [NoArgs EXCEPT !.tol = tol], RadialDistance(coords, tol))

CallPerpendicularDistance ==
    /\ pc = "init"
    /\ \E tol \in Tols :
          Return("PerpendicularDistance", [NoArgs EXCEPT !.tol = tol],
                 PerpendicularDistance(coords, tol))

CallPerpendicularDistanceRepeat ==
    /\ pc = "init"
    /\ \E tol \in Tols, repeat \in 0..MaxRepeat :
          Return("PerpendicularDistanceRepeat",
                 [NoArgs EXCEPT !.tol = tol, !.repeat = repeat],
                 PerpendicularDistanceRepeat(coords, tol, repeat))

CallReumannWitkam ==
    /\ pc = "init"
    /\ \E tol \in Tols, ub \in SUBSET (2..(PointCount(coords) - 1)) :
          Return("ReumannWitkam", [NoArgs EXCEPT !.tol = tol],
                 ReumannWitkam(coords, tol, ub))

CallOpheim ==
    /\ pc = "init"
    /\ \E minTol \in Tols, maxTol \in Tols :
          Return("Opheim", [NoArgs EXCEPT !.tol = minTol, !.maxTol = maxTol],
                 Opheim(coords, minTol, maxTol))

\* DouglasPeucker up to the loop of Approximate
CallDouglasPeucker(T) ==
    /\ pc = "init"
    /\ \E tol \in T :
          IF Len(coords) % DIM # 0 \/ PointCount(coords) < 2 \/ tol = 0
          THEN Return("DouglasPeucker", [NoArgs EXCEPT !.tol = tol], CopyInput(coords))
          ELSE LET rd == RadialDistance(coords, tol)
                   reducedCoordCount == rd.ret
               IN  /\ pc' = "Approximate"
                   /\ alg' = "DouglasPeucker"
                   /\ args' = [NoArgs EXCEPT !.tol = tol]
                   /\ reduced' = Range(rd.out, reducedCoordCount)
                   /\ keys' = InitialKeys(reducedCoordCount \div DIM)
                   /\ stack' = <<SubPoly(0, reducedCoordCount - DIM)>>
                   /\ UNCHANGED <<coords, out, ret, queue, keyCount, positionalErrors, scan, division>>

\* while (!stack.empty ())
StepApproximate ==
    /\ pc = "Approximate"
    /\ stack # <<>>
    /\ LET s == ApproximateStep(reduced, args.tol * args.tol, keys, stack)
       IN  /\ keys' = s.keys
           /\ stack' = s.stack
    /\ UNCHANGED <<pc, alg, coords, args, out, ret, reduced, queue, keyCount,
                   positionalErrors, scan, division>>

\* while (!stack.empty ()), with a worklist that hands out any of its entries
StepApproximateAnyOrder ==
    /\ pc = "Approximate"
    /\ stack # <<>>
    /\ \E i \in 1..Len(stack) :
          LET s == ApproximateTake(reduced, args.tol * args.tol, keys, stack, i)
          IN  /\ keys' = s.keys
              /\ stack' = s.stack
    /\ UNCHANGED <<pc, alg, coords, args, out, ret, reduced, queue, keyCount,
                   positionalErrors, scan, division>>

\* copy all keys; return result
ReturnDouglasPeucker ==
    /\ pc = "Approximate"
    /\ stack = <<>>
    /\ pc' = "done"
    /\ out' = CopyKeys(reduced, keys, PointCount(reduced), 0, <<>>)
    /\ ret' = Len(out')
    /\ UNCHANGED <<alg, coords, args, reduced, keys, stack, queue, keyCount,
                   positionalErrors, scan, division>>

\* DouglasPeuckerAlt up to the loop of ApproximateAlt
CallDouglasPeuckerAlt ==
    /\ pc = "init"
    /\ \E count \in 0..PointCount(coords) :
          IF Len(coords) % DIM # 0 \/ PointCount(coords) <= count \/ count < 2
          THEN Return("DouglasPeuckerAlt", [NoArgs EXCEPT !.count = count], CopyInput(coords))
          ELSE /\ pc' = IF count = 2 THEN "ApproximateAltReturned" ELSE "ApproximateAlt"
               /\ alg' = "DouglasPeuckerAlt"
               /\ args' = [NoArgs EXCEPT !.count = count]
               /\ keys' = InitialKeys(PointCount(coords))
               /\ keyCount' = 2
               /\ queue' = IF count = 2 THEN <<>>
                           ELSE <<SubPolyAlt(0, Len(coords) - DIM,
                                             FindKey(coords, 0, Len(coords) - DIM))>>
               /\ UNCHANGED <<coords, out, ret, reduced, stack, positionalErrors, scan, division>>

\* while (!queue.empty ())
StepApproximateAlt ==
    /\ pc = "ApproximateAlt"
    /\ queue # <<>>
    /\ \E i \in Tops(queue) :
          LET s == ApproximateAltStep(coords, args.count, keys, keyCount, queue, i)
          IN  /\ keys' = s.keys
              /\ keyCount' = s.keyCount
              /\ queue' = s.queue
              /\ pc' = IF s.exit THEN "ApproximateAltReturned" ELSE "ApproximateAlt"
    /\ UNCHANGED <<alg, coords, args, out, ret, reduced, stack, positionalErrors, scan, division>>

\* copy keys; return result
ReturnDouglasPeuckerAlt ==
    /\ \/ pc = "ApproximateAltReturned"
       \/ pc = "ApproximateAlt" /\ queue = <<>>
    /\ pc' = "done"
    /\ out' = CopyKeys(coords, keys, PointCount(coords), 0, <<>>)
    /\ ret' = Len(out')
    /\ UNCHANGED <<alg, coords, args, reduced, keys, stack, queue, keyCount,
                   positionalErrors, scan, division>>

\* ComputePositionalErrors2 (original, simpl), from the call to the return
ReturnErrors(simpl) ==
    LET r == ComputePositionalErrors2(coords, simpl)
    IN  /\ pc' = "errors"
        /\ simplified' = simpl
        /\ errors' = r.out
        /\ errorsEnd' = r.ret
        /\ valid' = r.valid
        /\ UNCHANGED <<alg, coords, args, out, ret, reduced, keys, stack, queue, keyCount,
                       scan, division>>

\* the positional errors of any second range
CallComputePositionalErrors2 ==
    /\ pc = "init"
    /\ \E simpl \in SimplifiedInputs : ReturnErrors(simpl)

\* the positional errors of the simplification that was written
CallComputePositionalErrors2OfResult ==
    /\ pc = "done"
    /\ ReturnErrors(out)

\* the loop of a scan is entered, or left for its return statement
Scan(a, l, written) ==
    /\ pc' = a
    /\ scan' = l
    /\ out' = written
    /\ UNCHANGED <<alg, coords, args, ret, reduced, keys, stack, queue, keyCount,
                   positionalErrors, division>>

\* the last point is always part of the simplification; return result
EndScan ==
    /\ pc' = "done"
    /\ out' = CopyKey(coords, scan.pj, out)
    /\ ret' = Len(out')
    /\ UNCHANGED <<alg, coords, args, reduced, keys, stack, queue, keyCount,
                   positionalErrors, scan, division>>

\* Opheim up to its loop
BeginOpheim ==
    /\ pc = "init"
    /\ \E minTol \in ScanTols, maxTol \in ScanTols :
          IF PointCount(coords) < 2 \/ minTol * minTol = 0 \/ maxTol * maxTol = 0
          THEN Return("Opheim", [NoArgs EXCEPT !.tol = minTol, !.maxTol = maxTol],
                      CopyInput(coords))
          ELSE /\ pc' = "Opheim"
               /\ alg' = "Opheim"
               /\ args' = [NoArgs EXCEPT !.tol = minTol, !.maxTol = maxTol]
               /\ scan' = [NoScan EXCEPT !.j = 2, !.pj = DIM]
               /\ out' = CopyKey(coords, 0, <<>>)
               /\ UNCHANGED <<coords, ret, reduced, keys, stack, queue, keyCount,
                              positionalErrors, division>>

\* for (diff_type j = 2; j < pointCount; ++j)
StepOpheim ==
    /\ pc = "Opheim"
    /\ scan.j < PointCount(coords)
    /\ LET s == OpheimStep(coords, args.tol * args.tol, args.maxTol * args.maxTol, scan, out)
       IN  Scan("Opheim", s.scan, s.written)

EndOpheim ==
    /\ pc = "Opheim"
    /\ ~(scan.j < PointCount(coords))
    /\ EndScan

\* ReumannWitkam up to its loop
BeginReumannWitkam ==
    /\ pc = "init"
    /\ \E tol \in ScanTols :
          IF PointCount(coords) < 3 \/ tol * tol = 0
          THEN Return("ReumannWitkam", [NoArgs EXCEPT !.tol = tol], CopyInput(coords))
          ELSE /\ pc' = "ReumannWitkam"
               /\ alg' = "ReumannWitkam"
               /\ args' = [NoArgs EXCEPT !.tol = tol]
               /\ scan' = [NoScan EXCEPT !.j = 2, !.p1 = DIM, !.pi = DIM, !.pj = DIM]
               /\ out' = CopyKey(coords, 0, <<>>)
               /\ UNCHANGED <<coords, ret, reduced, keys, stack, queue, keyCount,
                              positionalErrors, division>>

\* for (diff_type j = 2; j < pointCount; ++j); the outcome of a comparison
\* with an undefined distance is either one
StepReumannWitkam ==
    /\ pc = "ReumannWitkam"
    /\ scan.j < PointCount(coords)
    /\ \E undefined \in BOOLEAN :
          LET s == ReumannWitkamStep(coords, args.tol * args.tol, scan, out, undefined)
          IN  Scan("ReumannWitkam", s.scan, s.written)

EndReumannWitkam ==
    /\ pc = "ReumannWitkam"
    /\ ~(scan.j < PointCount(coords))
    /\ EndScan

Next ==
    \/ CallNthPoint
    \/ CallRadialDistance(Tols)
    \/ CallPerpendicularDistance
    \/ CallPerpendicularDistanceRepeat
    \/ CallReumannWitkam
    \/ CallOpheim
    \/ CallDouglasPeucker(Tols)
    \/ StepApproximate
    \/ ReturnDouglasPeucker
    \/ CallDouglasPeuckerAlt
    \/ StepApproximateAlt
    \/ ReturnDouglasPeuckerAlt

Spec == Init /\ [][Next]_vars

NextAxis ==
    \/ CallRadialDistance(AxisTols)
    \/ CallDouglasPeucker(AxisTols)
    \/ StepApproximate
    \/ ReturnDouglasPeucker
    \/ CallDouglasPeuckerAlt
    \/ StepApproximateAlt
    \/ ReturnDouglasPeuckerAlt

SpecAxis == InitAxis /\ [][NextAxis]_vars

NextLive ==
    \/ CallDouglasPeucker(Tols)
    \/ StepApproximate
    \/ ReturnDouglasPeucker
    \/ CallDouglasPeuckerAlt
    \/ StepApproximateAlt
    \/ ReturnDouglasPeuckerAlt

\* a loop that is entered goes on as long as its condition holds
SpecLive ==
    /\ InitLive
    /\ [][NextLive]_vars
    /\ WF_vars(StepApproximate)
    /\ WF_vars(StepApproximateAlt)

NextScan ==
    \/ BeginOpheim
    \/ StepOpheim
    \/ EndOpheim
    \/ BeginReumannWitkam
    \/ StepReumannWitkam
    \/ EndReumannWitkam

SpecScan == InitScan /\ [][NextScan]_vars

\* a call of a distance of namespace math up to its float division
CallDistance2(a, d) ==
    /\ pc = "init"
    /\ pc' = "done"
    /\ alg' = a
    /\ division' = d
    /\ UNCHANGED <<coords, args, out, ret, reduced, keys, stack, queue, keyCount,
                   positionalErrors, scan>>

CallLineDistance2 ==
    \E e \in MathExponents :
        CallDistance2("line_distance2",
                      line_distance2_fraction(Pt(coords, 0), Pt(coords, DIM),
                                              Pt(coords, 2 * DIM), e))

CallSegmentDistance2 ==
    \E e \in MathExponents :
        CallDistance2("segment_distance2",
                      segment_distance2_fraction(Pt(coords, 0), Pt(coords, DIM),
                                                 Pt(coords, 2 * DIM), e))

CallRayDistance2 ==
    \E e \in MathExponents :
        CallDistance2("ray_distance2",
                      ray_distance2_fraction(Pt(coords, 0), Pt(coords, DIM),
                                             Pt(coords, 2 * DIM), e))

NextMath ==
    \/ CallLineDistance2
    \/ CallSegmentDistance2
    \/ CallRayDistance2

SpecMath == InitMath /\ [][NextMath]_vars

\* DouglasPeucker with a worklist of any order
NextOrder ==
    \/ CallDouglasPeucker(AxisTols)
    \/ StepApproximateAnyOrder
    \/ ReturnDouglasPeucker

SpecOrder == InitAxis /\ [][NextOrder]_vars

NextErrors ==
    \/ CallRadialDistance(Tols)
    \/ CallComputePositionalErrors2
    \/ CallComputePositionalErrors2OfResult

SpecErrors == InitErrors /\ [][NextErrors]_vars

-----------------------------------------------------------------------------
(* Properties                                                              *)

Done == pc = "done"

N == PointCount(coords)

WellFormed == Len(coords) % DIM = 0

\* the input fails the validation of the simplifier that was called
Malformed ==
    \/ ~WellFormed
    \/ alg = "NthPoint" /\ (N < 2 \/ args.n < 2)
    \/ alg \in {"RadialDistance", "DouglasPeucker"} /\ (N < 2 \/ args.tol = 0)
    \/ /\ alg \in {"PerpendicularDistance", "PerpendicularDistanceRepeat", "ReumannWitkam"}
       /\ (N < 3 \/ args.tol = 0)
    \/ alg = "Opheim" /\ (N < 2 \/ args.tol = 0 \/ args.maxTol = 0)
    \/ alg = "DouglasPeuckerAlt" /\ (args.count < 2 \/ N <= args.count)

FirstPoint(c) == SubSeq(c, 1, DIM)

LastPoint(c) == SubSeq(c, Len(c) - DIM + 1, Len(c))

\* the coordinates of the points of c whose indices are in S, in the order of c
RECURSIVE SelectFrom(_, _, _)
SelectFrom(c, S, p) ==
    IF p < PointCount(c)
    THEN (IF p \in S THEN SubSeq(c, p * DIM + 1, p * DIM + DIM) ELSE <<>>) \o SelectFrom(c, S, p + 1)
    ELSE <<>>

Select(c, S) == SelectFrom(c, S, 0)

\* the sets of point indices of c whose points, in order, are the polyline o
Embeddings(o, c) == {S \in SUBSET (0..(PointCount(c) - 1)) : Select(c, S) = o}

\* the coordinates of c at the places in S, in order
RECURSIVE Pick(_, _, _)
Pick(c, S, i) ==
    IF i <= Len(c)
    THEN (IF i \in S THEN <<c[i]>> ELSE <<>>) \o Pick(c, S, i + 1)
    ELSE <<>>

\* C1: for every simplifier and every input that meets its requirements the
\* output is not empty, starts with the first input point and ends with the
\* last input point.
Cex_C1 ==
    (Done /\ ~Malformed) =>
        /\ Len(out) >= DIM
        /\ FirstPoint(out) = FirstPoint(coords)
        /\ LastPoint(out) = LastPoint(coords)

\* C2: the output consists of the input points at strictly increasing indices,
\* copied coordinate for coordinate: no point is emitted twice and no value
\* is written that the input does not hold at that place (for an input whose
\* coordinate count is no multiple of DIM, the same of its coordinates).
Thm_C2 ==
    Done =>
        IF WellFormed
        THEN Embeddings(out, coords) # {}
        ELSE \E S \in SUBSET (1..Len(coords)) : Pick(coords, S, 1) = out

\* a simplification that dropped a point and kept an interior one
Witness_C2 ==
    /\ Done
    /\ ~Malformed
    /\ 2 * DIM < Len(out)
    /\ Len(out) < Len(coords)

\* C3: on malformed input every simplifier, PerpendicularDistance with
\* repeat >= 2 included, writes exactly the input coordinates.
Cex_C3 == (Done /\ Malformed) => out = coords

\* C4: the returned position is the initial position advanced by the number of
\* coordinates written, for valid input and for input that is copied through.
Cex_C4 == Done => ret = Len(out)

\* C5: DouglasPeuckerAlt with 2 <= count < N writes exactly count points.
Cex_C5 ==
    (Done /\ alg = "DouglasPeuckerAlt" /\ ~Malformed) => Len(out) = args.count * DIM

\* every point of c that is not in S lies within tol2 of the segment between
\* the points of S around it
WithinTolerance(c, S, tol2) ==
    \A i \in (0..(PointCount(c) - 1)) \ S :
        \A a \in S, b \in S :
            (a < i /\ i < b /\ \A k \in S : ~(a < k /\ k < b)) =>
                segment_distance2(Pt(c, a * DIM), Pt(c, b * DIM), Pt(c, i * DIM)) <= tol2

\* C6: after DouglasPeucker on valid input every vertex of the original
\* polyline has a squared distance of at most tol squared to the output
\* segment that spans its position.
Cex_C6 ==
    (Done /\ alg = "DouglasPeucker" /\ ~Malformed) =>
        \E S \in Embeddings(out, coords) :
            /\ 0 \in S
            /\ (N - 1) \in S
            /\ WithinTolerance(coords, S, args.tol * args.tol)

\* going on along c never leads closer to a later point: an earlier point is
\* at least as far from every later point as the points in between are
Progressive(c) ==
    \A i \in 0..(PointCount(c) - 1), k \in 0..(PointCount(c) - 1), j \in 0..(PointCount(c) - 1) :
        (i <= k /\ k < j) =>
            point_distance2(Pt(c, i * DIM), Pt(c, j * DIM)) >=
                point_distance2(Pt(c, k * DIM), Pt(c, j * DIM))

\* C7 as stated: for valid input and non-zero tolerances t1 <= t2,
\* RadialDistance with t2 outputs no more points than with t1.
Cex_C7 ==
    (Done /\ alg = "RadialDistance" /\ ~Malformed) =>
        \A t2 \in AxisTols :
            (t2 # 0 /\ args.tol <= t2) => Len(RadialDistance(coords, t2).out) <= Len(out)

\* C7, amended: for valid input that is progressive and non-zero tolerances
\* of which t2 is at least as large in magnitude as t1, RadialDistance with
\* t2 outputs no more points than with t1.
Thm_C7 ==
    (Done /\ alg = "RadialDistance" /\ ~Malformed /\ Progressive(coords)) =>
        \A t2 \in AxisTols :
            (t2 # 0 /\ args.tol * args.tol <= t2 * t2) =>
                Len(RadialDistance(coords, t2).out) <= Len(out)

\* a progressive polyline of which the larger tolerance keeps fewer points
Witness_C7 ==
    /\ Done
    /\ alg = "RadialDistance"
    /\ ~Malformed
    /\ Progressive(coords)
    /\ 2 * DIM < Len(out)
    /\ \E t2 \in AxisTols :
          /\ args.tol * args.tol < t2 * t2
          /\ Len(RadialDistance(coords, t2).out) < Len(out)

\* C8 as stated: for valid input and non-zero tolerances t1 <= t2,
\* DouglasPeucker with t2, radial-distance preprocessing included, outputs no
\* more points than with t1.
Cex_C8 ==
    (Done /\ alg = "DouglasPeucker" /\ ~Malformed) =>
        \A t2 \in AxisTols :
            (t2 # 0 /\ args.tol <= t2) => Len(DouglasPeucker(coords, t2).out) <= Len(out)

\* C8, amended: for valid input and non-zero tolerances of which t2 is at
\* least as large in magnitude as t1, and for which the radial-distance
\* preprocessing leaves the same reduced polyline, DouglasPeucker with t2
\* outputs no more points than with t1.
Thm_C8 ==
    (Done /\ alg = "DouglasPeucker" /\ ~Malformed) =>
        \A t2 \in AxisTols :
            (/\ t2 # 0
             /\ args.tol * args.tol <= t2 * t2
             /\ RadialDistance(coords, t2).out = RadialDistance(coords, args.tol).out) =>
                Len(DouglasPeucker(coords, t2).out) <= Len(out)

\* the same reduced polyline, of which the larger tolerance keeps fewer points
Witness_C8 ==
    /\ Done
    /\ alg = "DouglasPeucker"
    /\ ~Malformed
    /\ 2 * DIM < Len(out)
    /\ \E t2 \in AxisTols :
          /\ args.tol * args.tol < t2 * t2
          /\ RadialDistance(coords, t2).out = RadialDistance(coords, args.tol).out
          /\ Len(DouglasPeucker(coords, t2).out) < Len(out)

RECURSIVE RepeatedPasses(_, _, _)
RepeatedPasses(c, tol, repeat) ==
    LET o == PerpendicularDistance(c, tol).out
    IN  IF repeat <= 1 \/ Len(o) = Len(c) THEN o ELSE RepeatedPasses(o, tol, repeat - 1)

\* C10: PerpendicularDistance with repeat >= 2 on valid input outputs what
\* the repeated single pass outputs, also when an intermediate result has
\* shrunk to two points.
Cex_C10 ==
    (Done /\ alg = "PerpendicularDistanceRepeat" /\ ~Malformed /\ args.repeat >= 2) =>
        out = RepeatedPasses(coords, args.tol, args.repeat)

\* C11: for valid input of N points, the output S of PerpendicularDistance
\* with repeat >= N is left as it is by the single pass: the single pass on S
\* writes S again.
Thm_C11 ==
    (Done /\ alg = "PerpendicularDistanceRepeat" /\ ~Malformed /\ args.repeat >= N) =>
        PerpendicularDistance(out, args.tol).out = out

\* the repeat variant removed a point of a polyline of more than 3 points and
\* stopped at a polyline with an interior point
Witness_C11 ==
    /\ Done
    /\ alg = "PerpendicularDistanceRepeat"
    /\ ~Malformed
    /\ args.repeat >= N
    /\ N > 3
    /\ 2 * DIM < Len(out)
    /\ Len(out) < Len(coords)

\* the validation of ComputePositionalErrors2 as the documentation states it
ErrorRequirementsMet ==
    /\ Len(coords) % DIM = 0
    /\ Len(simplified) % DIM = 0
    /\ PointCount(coords) >= 2
    /\ PointCount(simplified) >= 2
    /\ PointCount(coords) >= PointCount(simplified)
    /\ FirstPoint(coords) = FirstPoint(simplified)

\* C12: when either range has a coordinate count that is no multiple of DIM
\* or fewer than 2 points, when the original has fewer points than the
\* simplification, or when the first points differ, ComputePositionalErrors2
\* sets valid to false, writes no error and returns the position it was given.
Thm_C12 ==
    (pc = "errors" /\ ~ErrorRequirementsMet) =>
        /\ valid = FALSE
        /\ errors = <<>>
        /\ errorsEnd = 0

\* two polylines that differ in nothing but the first point
Witness_C12 ==
    /\ pc = "errors"
    /\ Len(coords) % DIM = 0
    /\ PointCount(coords) >= 3
    /\ Len(simplified) = Len(coords) - DIM
    /\ FirstPoint(coords) # FirstPoint(simplified)
    /\ LastPoint(coords) = LastPoint(simplified)
    /\ valid = FALSE

\* C13: ComputePositionalErrors2 reports valid = true only when the
\* simplification consists of points of the original at strictly increasing
\* indices.
Cex_C13 ==
    (pc = "errors" /\ valid) =>
        /\ Len(coords) % DIM = 0
        /\ Len(simplified) % DIM = 0
        /\ Embeddings(simplified, coords) # {}

\* C14: when ComputePositionalErrors2 reports valid = true the last point of
\* the simplification is the last point of the original and one squared error
\* was written for each point of the original.
Cex_C14 ==
    (pc = "errors" /\ valid) =>
        /\ LastPoint(simplified) = LastPoint(coords)
        /\ Len(errors) = N
        /\ errorsEnd = N

\* C15: for a valid polyline and a non-zero tolerance the positional errors
\* of the output of RadialDistance are reported valid, and each squared
\* error written is at most the tolerance squared.
Cex_C15 ==
    (pc = "errors" /\ alg = "RadialDistance" /\ ~Malformed) =>
        /\ valid
        /\ \A i \in 1..Len(errors) : errors[i] <= args.tol * args.tol

\* C16: on well-formed input the loop of Approximate comes to an empty stack,
\* and the loop of ApproximateAlt comes to its break (the key count reached
\* count) or to an empty queue.
Thm_C16 ==
    /\ (pc = "Approximate") ~> (pc = "Approximate" /\ stack = <<>>)
    /\ (pc = "ApproximateAlt") ~>
           (pc = "ApproximateAltReturned" \/ (pc = "ApproximateAlt" /\ queue = <<>>))

\* the stack ran empty on a polyline with a point twice, after a split
Witness_C16 ==
    /\ pc = "Approximate"
    /\ stack = <<>>
    /\ \E p \in 1..(PointCount(reduced) - 2) : keys[p] = 1
    /\ \E p \in 0..(PointCount(reduced) - 1), q \in 0..(PointCount(reduced) - 1) :
          p # q /\ equal(Pt(reduced, p * DIM), Pt(reduced, q * DIM))

\* the offsets of the interior points of the sub-polyline [first, last]
Interior(first, last) == {p \in (first + 1)..(last - 1) : (p - first) % DIM = 0}

\* the interior points of [first, last] of c that are farthest from the segment
Farthest(c, first, last) ==
    {p \in Interior(first, last) :
        \A q \in Interior(first, last) :
            segment_distance2(Pt(c, first), Pt(c, last), Pt(c, q)) <=
                segment_distance2(Pt(c, first), Pt(c, last), Pt(c, p))}

\* C17 as stated: the key FindKey found for a sub-polyline with an interior
\* point is an interior point of maximum segment_distance2 to the segment
\* (first, last), and of several such points the one with the smallest offset.
Cex_C17 ==
    (pc = "ApproximateAlt") =>
        \A i \in 1..Len(queue) :
            Interior(queue[i].first, queue[i].last) # {} =>
                /\ queue[i].keyInfo.index \in Farthest(coords, queue[i].first, queue[i].last)
                /\ \A p \in Farthest(coords, queue[i].first, queue[i].last) :
                       queue[i].keyInfo.index <= p

\* C17, amended: the key FindKey found for a sub-polyline with an interior
\* point is an interior point of maximum segment_distance2 to the segment
\* (first, last), its dist2 is that maximum, and of several such points it is
\* the one with the largest offset.
Thm_C17 ==
    (pc = "ApproximateAlt") =>
        \A i \in 1..Len(queue) :
            Interior(queue[i].first, queue[i].last) # {} =>
                /\ queue[i].keyInfo.index \in Farthest(coords, queue[i].first, queue[i].last)
                /\ queue[i].keyInfo.dist2 =
                       segment_distance2(Pt(coords, queue[i].first), Pt(coords, queue[i].last),
                                         Pt(coords, queue[i].keyInfo.index))
                /\ \A p \in Farthest(coords, queue[i].first, queue[i].last) :
                       p <= queue[i].keyInfo.index

\* a sub-polyline of which two interior points are farthest, away from the
\* segment, and a third is nearer
Witness_C17 ==
    /\ pc = "ApproximateAlt"
    /\ \E i \in 1..Len(queue) :
          /\ Cardinality(Farthest(coords, queue[i].first, queue[i].last)) = 2
          /\ Cardinality(Interior(queue[i].first, queue[i].last)) = 3
          /\ queue[i].keyInfo.dist2 > 0

\* C18: the key FindKey found for a sub-polyline without interior point has
\* the index `last`, so that taking the sub-polyline from the queue marks no
\* point and counts no key.
Cex_C18 ==
    (pc = "ApproximateAlt") =>
        \A i \in 1..Len(queue) :
            Interior(queue[i].first, queue[i].last) = {} =>
                queue[i].keyInfo.index = queue[i].last

\* the indices of the points marked as keys
KeySet == {p \in DOMAIN keys : keys[p] = 1}

\* C19: at every step of the key selection of DouglasPeuckerAlt the key
\* counter is the number of points marked as keys.
Cex_C19 ==
    (pc \in {"ApproximateAlt", "ApproximateAltReturned"}) => keyCount = Cardinality(KeySet)

\* C20: when the loop of Approximate has ended, every point of the reduced
\* polyline between two consecutive keys has a segment_distance2 of at most
\* tol squared to the segment between them; and a turn of the loop that marks
\* a key marks an interior point of the sub-polyline it took from the stack,
\* of a squared distance greater than tol squared to its segment.
Thm_C20 ==
    /\ []((pc = "Approximate" /\ stack = <<>>) =>
             WithinTolerance(reduced, KeySet, args.tol * args.tol))
    /\ [][(pc = "Approximate" /\ keys' # keys) =>
             LET subPoly == stack[Len(stack)]
             IN  \E k \in Interior(subPoly.first, subPoly.last) :
                     /\ keys' = [keys EXCEPT ![k \div DIM] = 1]
                     /\ keys[k \div DIM] = 0
                     /\ segment_distance2(Pt(reduced, subPoly.first), Pt(reduced, subPoly.last),
                                          Pt(reduced, k)) > args.tol * args.tol]_vars

\* the loop has ended with an interior key and with a point that is no key
Witness_C20 ==
    /\ pc = "Approximate"
    /\ stack = <<>>
    /\ \E p \in KeySet : 0 < p /\ p < PointCount(reduced) - 1
    /\ \E p \in DOMAIN keys : keys[p] = 0

\* the largest element of a non-empty set of numbers
Max(S) == CHOOSE m \in S : \A k \in S : k <= m

\* C21: the output of RadialDistance on valid input is the input at a set of
\* indices that holds the first and the last: every output point but the first
\* and the last is at a squared distance of at least tol squared from the
\* output point before it, and every input point left out is at a squared
\* distance below tol squared from the nearest output point before it.
Thm_C21 ==
    (Done /\ alg = "RadialDistance" /\ ~Malformed) =>
        /\ \A i \in 1..(PointCount(out) - 2) :
               point_distance2(Pt(out, (i - 1) * DIM), Pt(out, i * DIM)) >= args.tol * args.tol
        /\ \E S \in Embeddings(out, coords) :
               /\ 0 \in S
               /\ (N - 1) \in S
               /\ \A p \in (0..(N - 1)) \ S :
                      point_distance2(Pt(coords, Max({k \in S : k < p}) * DIM),
                                      Pt(coords, p * DIM)) < args.tol * args.tol

\* an interior key, a point left out, and a last point that is closer than the
\* tolerance to the key before it
Witness_C21 ==
    /\ Done
    /\ alg = "RadialDistance"
    /\ ~Malformed
    /\ 2 * DIM < Len(out)
    /\ Len(out) < Len(coords)
    /\ point_distance2(Pt(out, Len(out) - 2 * DIM), Pt(out, Len(out) - DIM)) <
           args.tol * args.tol

\* C22: a single pass of PerpendicularDistance on a valid input of N points
\* writes m points with 2 * m >= N, the input at a set of indices in which
\* every index left out is followed by one that is kept.
Thm_C22 ==
    (Done /\ alg = "PerpendicularDistance" /\ ~Malformed) =>
        /\ 2 * PointCount(out) >= N
        /\ \E S \in Embeddings(out, coords) :
               \A p \in (0..(N - 1)) \ S : (p + 1) \in S

\* a pass that dropped a point of a polyline of more than 3 points
Witness_C22 ==
    /\ Done
    /\ alg = "PerpendicularDistance"
    /\ ~Malformed
    /\ N > 3
    /\ Len(out) < Len(coords)

\* C23: PerpendicularDistance with repeat = 0 writes the input as it is,
\* whatever the tolerance and the input are; with repeat = 1 it writes what
\* the single pass writes and returns the position the single pass returns.
Thm_C23 ==
    (Done /\ alg = "PerpendicularDistanceRepeat") =>
        /\ args.repeat = 0 => out = coords
        /\ args.repeat = 1 =>
               /\ out = PerpendicularDistance(coords, args.tol).out
               /\ ret = PerpendicularDistance(coords, args.tol).ret

\* repeat = 1 on a polyline of which a second pass would drop another point
Witness_C23 ==
    /\ Done
    /\ alg = "PerpendicularDistanceRepeat"
    /\ ~Malformed
    /\ args.repeat = 1
    /\ Len(out) < Len(coords)
    /\ PerpendicularDistance(out, args.tol).out # out

\* a turn of the loop of Opheim that starts without a ray and scans a point
\* within the minimum tolerance of the key: the point is skipped
OpheimSkips ==
    point_distance2(Pt(coords, scan.r0), Pt(coords, scan'.pj)) < args.tol * args.tol =>
        /\ out' = out
        /\ scan'.r0 = scan.r0
        /\ scan'.r1 = scan.r1
        /\ ~scan'.rayDefined

\* C24 as stated: while no ray is defined, a point nearer to the key than
\* minTol is skipped, and the first point pj scanned that is not becomes the
\* second point of the ray.
Cex_C24 ==
    [][(pc = "Opheim" /\ pc' = "Opheim" /\ ~scan.rayDefined) =>
           /\ OpheimSkips
           /\ point_distance2(Pt(coords, scan.r0), Pt(coords, scan'.pj)) >=
                  args.tol * args.tol => scan'.r1 = scan'.pj]_vars

\* C24, amended: while no ray is defined, a point nearer to the key than
\* minTol is skipped, and at the first point pj scanned that is not, the point
\* scanned before it, pi, becomes the second point of the ray; the ray
\* R(key, pi) is then in force, unless pj fails against it and pi is written
\* as the next key.
Thm_C24 ==
    [][(pc = "Opheim" /\ pc' = "Opheim" /\ ~scan.rayDefined) =>
           /\ OpheimSkips
           /\ point_distance2(Pt(coords, scan.r0), Pt(coords, scan'.pj)) >=
                  args.tol * args.tol =>
                  /\ scan'.pi = scan.pj
                  /\ scan'.pj = scan.pj + DIM
                  /\ scan'.r1 = scan'.pi
                  /\ \/ scan'.rayDefined /\ scan'.r0 = scan.r0 /\ out' = out
                     \/ /\ ~scan'.rayDefined
                        /\ scan'.r0 = scan'.pi
                        /\ out' = CopyKey(coords, scan'.pi, out)]_vars

\* a ray that was defined after a point was skipped, through a point that is
\* not at the place of the point that left the minimum tolerance
Witness_C24 ==
    /\ pc = "Opheim"
    /\ scan.rayDefined
    /\ scan.r1 > scan.r0 + DIM
    /\ scan.pj = scan.r1 + DIM
    /\ ~equal(Pt(coords, scan.r1), Pt(coords, scan.pj))

\* a turn of the loop of ReumannWitkam found the next key at the point before
\* the one it scanned, and defined the line through the two
ReumannWitkamKey ==
    /\ out' = CopyKey(coords, scan.pj, out)
    /\ scan'.p0 = scan.pj
    /\ scan'.p1 = scan.pj + DIM
    /\ scan.p0 < scan'.p0

\* a turn of the loop of ReumannWitkam wrote nothing and left the line
ReumannWitkamPass ==
    /\ out' = out
    /\ scan'.p0 = scan.p0
    /\ scan'.p1 = scan.p1

Thm_C26 ==
    (alg = "DouglasPeuckerAlt" /\ WellFormed /\ 2 <= args.count /\ args.count < N) =>
        /\ pc \in {"ApproximateAlt", "ApproximateAltReturned"} =>
               /\ 2 <= Cardinality(KeySet)
               /\ Cardinality(KeySet) <= keyCount
               /\ keyCount <= args.count
        /\ Done =>
               /\ Len(out) % DIM = 0
               /\ 2 <= PointCount(out)
               /\ PointCount(out) <= args.count
               /\ PointCount(out) = Cardinality(KeySet)

\* a call that wrote fewer points than count, having taken from the queue a
\* sub-polyline without a key among entries of equal distance
Witness_C26 ==
    /\ Done /\ alg = "DouglasPeuckerAlt" /\ WellFormed
    /\ 2 < args.count /\ args.count < N
    /\ keyCount = args.count
    /\ PointCount(out) < args.count

\* C27: the keys that the loop of Approximate marks do not depend on the
\* order in which the pending sub-polylines are taken: from every state that
\* a worklist of any order reaches, the keys at the end are those of the
\* LIFO worklist for the same coordinates and tolerance.
Thm_C27 ==
    (pc = "Approximate" /\ alg = "DouglasPeucker") =>
        /\ ApproximateLoop(reduced, args.tol * args.tol, keys, stack)
               = Approximate(reduced, Len(reduced), args.tol)
        /\ stack = <<>> => keys = Approximate(reduced, Len(reduced), args.tol)

\* a state no LIFO worklist reaches: a sub-polyline is pending while a key
\* that is no end of a pending sub-polyline is marked behind it
Witness_C27 ==
    /\ pc = "Approximate" /\ alg = "DouglasPeucker"
    /\ \E i \in DOMAIN stack, p \in KeySet :
          /\ p * DIM > stack[i].last
          /\ p < PointCount(reduced) - 1
          /\ \A j \in DOMAIN stack : stack[j].first # p * DIM /\ stack[j].last # p * DIM

\* the points strictly between the ends of a sub-polyline
Between(subPoly) == {p \in DOMAIN keys : subPoly.first < p * DIM /\ p * DIM < subPoly.last}

\* C28: at every turn of the loop of Approximate each sub-polyline on the
\* stack has first < last, both its ends are marked as keys, no point
\* strictly between its ends is marked, the interiors of two stacked
\* sub-polylines are disjoint, and the stack holds at most (number of marked
\* keys - 1) entries.
Thm_C28 ==
    (pc = "Approximate" /\ alg = "DouglasPeucker") =>
        /\ \A i \in DOMAIN stack :
              /\ stack[i].first < stack[i].last
              /\ stack[i].first % DIM = 0 /\ stack[i].last % DIM = 0
              /\ stack[i].first \div DIM \in KeySet
              /\ stack[i].last \div DIM \in KeySet
              /\ Between(stack[i]) \cap KeySet = {}
        /\ \A i, j \in DOMAIN stack : i # j => Between(stack[i]) \cap Between(stack[j]) = {}
        /\ Len(stack) <= Cardinality(KeySet) - 1

\* a stack of as many sub-polylines as it can hold, after two splits
Witness_C28 ==
    /\ pc = "Approximate" /\ alg = "DouglasPeucker"
    /\ Len(stack) = 3
    /\ Cardinality(KeySet) = 4
    /\ \E i \in DOMAIN stack : Between(stack[i]) # {}

\* C29: segment_distance2 and ray_distance2 reach the division only with a
\* dividend above zero and never with a divisor of zero; for defining points
\* that are equal they return the distance from p to the first of them; and
\* line_distance2 always divides.
Cex_C29 ==
    Done =>
        /\ alg \in {"segment_distance2", "ray_distance2"} =>
               /\ division.reached => division.dividend > 0 /\ division.divisor > 0
               /\ equal(Pt(coords, 0), Pt(coords, DIM)) =>
                      ~division.reached /\ division.from = 1
        /\ alg = "line_distance2" => division.reached

\* C30: ComputePositionalErrors2 writes at most as many errors as the original
\* polyline has points, for any two ranges, and returns the position behind
\* the last error written.
Thm_C30 ==
    pc = "errors" =>
        /\ Len(errors) <= PointCount(coords)
        /\ errorsEnd = Len(errors)

\* a call that wrote one error for every original point, the simplified
\* range being shorter
Witness_C30 ==
    /\ pc = "errors"
    /\ PointCount(coords) >= 3
    /\ Len(simplified) < Len(coords)
    /\ Len(errors) = PointCount(coords)

====
